---- MODULE Spec2Model ----
(***************************************************************************)
(* Model of the JDK install pipeline of launcher-java-installer            *)
(* (src/src/lib.rs): Downloader::download, Extractor::extract,             *)
(* copy_dir_all, Installer::install,                                       *)
(* EnvironmentVariableConfigurator::configure and JavaSetup::setup.        *)
(*                                                                         *)
(* Strings (paths as the program holds them, the PATH variable) are        *)
(* sequences of one-character strings, so that `contains` is a real        *)
(* substring test.  The file system maps a path (a sequence of component   *)
(* names) to a node; the root <<>> always exists.                          *)
(***************************************************************************)
EXTENDS Naturals, Sequences, FiniteSets, TLC

VARIABLES
    req,        \* the InstallRequest: download_path, extract_path, install_path
    fs,         \* the file system: path -> node
    dirOrder,   \* the order in which the file system lists a directory
    net,        \* the remote side: catalog response and archive response
    env,        \* the process environment variable PATH
    userPath,   \* the persistent user-scope PATH
    pc,         \* position of the running operation
    jdk_dir,    \* Installer::install's local jdk_dir
    started,    \* the stages started so far, in order
    returned,   \* what each started stage returned, in order
    result,     \* what the running operation returned
    requests,   \* the HTTP GETs issued so far
    calls,      \* completed configure calls (unit specification)
    hist        \* values remembered from the start of the operation

vars == <<req, fs, dirOrder, net, env, userPath, pc, jdk_dir, started,
          returned, result, requests, calls, hist>>

-----------------------------------------------------------------------------
(* Strings                                                                 *)

Sep == "\\"
PathListSep == ";"
BinName == <<"b", "i", "n">>

StartsWithAt(s, sub, i) ==
    /\ i + Len(sub) - 1 <= Len(s)
    /\ \A k \in 1..Len(sub) : s[i + k - 1] = sub[k]

\* str::contains: sub occurs in s as a contiguous substring
Contains(s, sub) ==
    \E i \in 1..(Len(s) + 1) : StartsWithAt(s, sub, i)

\* the number of positions of s at which sub starts
Occurrences(s, sub) ==
    Cardinality({i \in 1..(Len(s) + 1) : StartsWithAt(s, sub, i)})

RECURSIVE JoinChars(_)
JoinChars(cs) ==
    IF cs = <<>> THEN "" ELSE Head(cs) \o JoinChars(Tail(cs))

\* Path::new(s): the components of s, split at the separator
RECURSIVE SplitAt(_, _, _)
SplitAt(s, cur, sep) ==
    IF s = <<>> THEN (IF cur = <<>> THEN <<>> ELSE <<JoinChars(cur)>>)
    ELSE IF Head(s) = sep
         THEN (IF cur = <<>> THEN <<>> ELSE <<JoinChars(cur)>>)
              \o SplitAt(Tail(s), <<>>, sep)
         ELSE SplitAt(Tail(s), Append(cur, Head(s)), sep)

ToPath(s) == SplitAt(s, <<>>, Sep)

-----------------------------------------------------------------------------
(* File system                                                             *)

DirNode == [k |-> "dir", zip |-> FALSE, bytes |-> "", entries |-> <<>>]
FileNode(bytes) == [k |-> "file", zip |-> FALSE, bytes |-> bytes, entries |-> <<>>]
ZipNode(entries) == [k |-> "file", zip |-> TRUE, bytes |-> "", entries |-> entries]

IsPrefix(p, q) == Len(p) <= Len(q) /\ SubSeq(q, 1, Len(p)) = p
Parent(p) == SubSeq(p, 1, Len(p) - 1)
Prefixes(p) == {SubSeq(p, 1, n) : n \in 1..Len(p)}

Exists(f, p) == p = <<>> \/ p \in DOMAIN f
IsDir(f, p) == p = <<>> \/ (p \in DOMAIN f /\ f[p].k = "dir")
IsFile(f, p) == p \in DOMAIN f /\ f[p].k = "file"

Under(f, p) == {q \in DOMAIN f : IsPrefix(p, q)}
Below(f, p) == {q \in DOMAIN f : IsPrefix(p, q) /\ q # p}

Put(f, p, node) == [q \in DOMAIN f \cup {p} |-> IF q = p THEN node ELSE f[q]]
Drop(f, S) == [q \in DOMAIN f \ S |-> f[q]]

\* fs::create_dir_all: every missing directory of the path is created;
\* fails when a component is a file
CreateDirAll(f, p) ==
    IF \E q \in Prefixes(p) : IsFile(f, q)
    THEN [ok |-> FALSE, fs |-> f]
    ELSE [ok |-> TRUE,
          fs |-> [q \in DOMAIN f \cup Prefixes(p) |->
                     IF q \in DOMAIN f THEN f[q] ELSE DirNode]]

\* File::create + write: creates or truncates the file; fails when the
\* parent is no directory or the path is a directory
WriteFile(f, p, node) ==
    IF p = <<>> \/ ~IsDir(f, Parent(p)) \/ IsDir(f, p)
    THEN [ok |-> FALSE, fs |-> f]
    ELSE [ok |-> TRUE, fs |-> Put(f, p, node)]

\* fs::remove_dir_all: the directory and everything under it; fails when
\* the path is no directory
RemoveDirAll(f, p) ==
    IF p = <<>> \/ ~IsDir(f, p)
    THEN [ok |-> FALSE, fs |-> f]
    ELSE [ok |-> TRUE, fs |-> Drop(f, Under(f, p))]

-----------------------------------------------------------------------------
(* Downloader::download                                                    *)

None == [some |-> FALSE]
Some(v) == [some |-> TRUE, v |-> v]

JNull == [t |-> "null"]
JNum == [t |-> "num"]
JStr(s) == [t |-> "str", s |-> s]
JArr(a) == [t |-> "arr", a |-> a]
JObj(o) == [t |-> "obj", o |-> o]

\* serde_json::Value::as_array, <[T]>::first, Value::get(&str), Value::as_str
AsArray(v) == IF v.t = "arr" THEN Some(v.a) ELSE None
LastOf(a) == IF a = <<>> THEN None ELSE Some(a[Len(a)])
First(a) == IF a = <<>> THEN None ELSE Some(a[1])
Get(v, key) == IF v.t = "obj" /\ key \in DOMAIN v.o THEN Some(v.o[key]) ELSE None
AsStr(v) == IF v.t = "str" THEN Some(v.s) ELSE None

\* the chain of and_then of download: each step runs only on Some
ResolveLink(json) ==
    LET array == AsArray(json)
        item == IF array.some THEN First(array.v) ELSE None
        binaries == IF item.some THEN Get(item.v, "binaries") ELSE None
        binaries_array == IF binaries.some THEN AsArray(binaries.v) ELSE None
        binary == IF binaries_array.some THEN First(binaries_array.v) ELSE None
        package == IF binary.some THEN Get(binary.v, "package") ELSE None
        link == IF package.some THEN Get(package.v, "link") ELSE None
    IN  IF link.some THEN AsStr(link.v) ELSE None

CatalogUrl == "java_url"

Outcome(ret, f, reqs) == [ret |-> ret, fs |-> f, reqs |-> reqs]

\* lines 57-61: GET the link, create (truncate) the file, read the body,
\* copy it into the file; each step can fail and ends the call
FetchOutcomes(f, download_path, n, link_str) ==
    LET reqs == <<CatalogUrl, link_str>>
        p == ToPath(download_path)
        created == WriteFile(f, p, FileNode(""))
    IN  IF n.archive.get = "fail"
        THEN {Outcome("Err:archive request", f, reqs)}
        ELSE {Outcome("Err:create file", f, reqs)}
             \cup (IF ~created.ok THEN {}
                   ELSE IF ~n.archive.body_ok
                   THEN {Outcome("Err:archive body", created.fs, reqs)}
                   ELSE {Outcome("Err:write file", created.fs, reqs),
                         Outcome("Ok", Put(created.fs, p, n.archive.node), reqs)})

DownloadOutcomes(f, download_path, n) ==
    IF n.catalog.transport = "fail"
    THEN {Outcome("Err:catalog request", f, <<CatalogUrl>>)}
    ELSE IF ~n.catalog.json
    THEN {Outcome("Err:catalog parse", f, <<CatalogUrl>>)}
    ELSE LET link == ResolveLink(n.catalog.value)
         IN  IF link.some
             THEN FetchOutcomes(f, download_path, n, link.v)
             ELSE {Outcome("Ok", f, <<CatalogUrl>>)}

-----------------------------------------------------------------------------
(* Extractor::extract                                                      *)

\* Path::components(): the components that are not Normal
SpecialComponents == {"..", ".", "/", "C:"}

\* ZipFile::sanitized_name: only the Normal components of the name are kept
SanitizedName(name) == SelectSeq(name, LAMBDA c : c \notin SpecialComponents)

Step(ok, f) == [ok |-> ok, fs |-> f]

\* Path::join of the name as the archive gives it: a parent component
\* leaves the directory, a root or prefix component replaces the path
RECURSIVE RawJoin(_, _)
RawJoin(base, name) ==
    IF name = <<>> THEN base
    ELSE IF Head(name) = ".." THEN RawJoin(Parent(base), Tail(name))
    ELSE IF Head(name) = "." THEN RawJoin(base, Tail(name))
    ELSE IF Head(name) \in SpecialComponents THEN RawJoin(<<>>, Tail(name))
    ELSE RawJoin(Append(base, Head(name)), Tail(name))

\* an extractor that joins the entry's name as it is
ExtractEntryUnsanitized(f, extract_path, e) ==
    LET outpath == RawJoin(ToPath(extract_path), e.name)
        p == Parent(outpath)
    IN  IF e.dir
        THEN CreateDirAll(f, outpath)
        ELSE LET made == IF outpath # <<>> /\ ~Exists(f, p)
                         THEN CreateDirAll(f, p) ELSE Step(TRUE, f)
             IN  IF made.ok THEN WriteFile(made.fs, outpath, FileNode(e.bytes))
                 ELSE made

\* an extractor that writes a directory entry as an empty file
ExtractEntryAsFile(f, extract_path, e) ==
    WriteFile(f, ToPath(extract_path) \o SanitizedName(e.name), FileNode(e.bytes))

\* lines 77-90, one archive entry; a name without a Normal component joins
\* to the extract path with a trailing separator, where no file can be
\* created
ExtractEntry(f, extract_path, e) ==
    LET outpath == ToPath(extract_path) \o SanitizedName(e.name)
        p == Parent(outpath)
    IN  IF e.dir
        THEN CreateDirAll(f, outpath)
        ELSE LET made == IF outpath # <<>> /\ ~Exists(f, p)
                         THEN CreateDirAll(f, p) ELSE Step(TRUE, f)
             IN  IF ~made.ok THEN made
                 ELSE IF SanitizedName(e.name) = <<>> THEN Step(FALSE, made.fs)
                 ELSE WriteFile(made.fs, outpath, FileNode(e.bytes))

\* the loop of lines 76-91 over the first n entries, stopping at the first error
RECURSIVE ExtractEntries(_, _, _, _)
ExtractEntries(f, extract_path, entries, n) ==
    IF n = 0 THEN Step(TRUE, f)
    ELSE LET before == ExtractEntries(f, extract_path, entries, n - 1)
         IN  IF before.ok THEN ExtractEntry(before.fs, extract_path, entries[n])
             ELSE before

ExtractOutcomes(f, download_path, extract_path) ==
    LET src == ToPath(download_path)
    IN  IF ~IsFile(f, src) THEN {Outcome("Err:open archive", f, <<>>)}
        ELSE IF ~f[src].zip THEN {Outcome("Err:invalid archive", f, <<>>)}
        ELSE LET entries == f[src].entries
                 all == ExtractEntries(f, extract_path, entries, Len(entries))
             IN  {Outcome(IF all.ok THEN "Ok" ELSE "Err:write entry", all.fs, <<>>)}
                 \cup {Outcome("Err:write entry",
                               ExtractEntries(f, extract_path, entries, n - 1).fs, <<>>) :
                         n \in {m \in 1..Len(entries) :
                                  ExtractEntries(f, extract_path, entries, m - 1).ok}}

-----------------------------------------------------------------------------
(* WalkDir and copy_dir_all                                                *)

\* std::fs::read_dir of p, in the listing order of the file system
Listing(f, p, order) == SelectSeq(order, LAMBDA n : Append(p, n) \in DOMAIN f)

\* WalkDir::new(root).min_depth(lo).max_depth(hi): pre-order, a directory
\* before its content, entries at depths lo..hi
RECURSIVE WalkFrom(_, _, _, _, _, _), WalkKids(_, _, _, _, _, _, _)
WalkFrom(f, p, depth, order, lo, hi) ==
    (IF depth >= lo THEN <<p>> ELSE <<>>)
    \o (IF IsDir(f, p) /\ depth < hi
        THEN WalkKids(f, p, Listing(f, p, order), depth + 1, order, lo, hi)
        ELSE <<>>)
WalkKids(f, p, kids, depth, order, lo, hi) ==
    IF kids = <<>> THEN <<>>
    ELSE WalkFrom(f, Append(p, Head(kids)), depth, order, lo, hi)
         \o WalkKids(f, p, Tail(kids), depth, order, lo, hi)

\* a missing root yields one error entry, which both callers see
Walk(f, root, order, lo, hi) ==
    IF Exists(f, root) THEN WalkFrom(f, root, 0, order, lo, hi) ELSE <<>>

\* lines 102-108, one entry of the walk of src
CopyEntry(f, src, dst, entry) ==
    LET rel_path == SubSeq(entry, Len(src) + 1, Len(entry))
        dest_path == dst \o rel_path
    IN  IF IsDir(f, entry) THEN CreateDirAll(f, dest_path)
        ELSE WriteFile(f, dest_path, f[entry])

RECURSIVE CopyEntries(_, _, _, _, _)
CopyEntries(f, src, dst, walk, n) ==
    IF n = 0 THEN CreateDirAll(f, dst)
    ELSE LET before == CopyEntries(f, src, dst, walk, n - 1)
         IN  IF before.ok THEN CopyEntry(before.fs, src, dst, walk[n])
             ELSE before

\* copy_dir_all(src, dst): the walk has no depth limit
CopyDirAllOutcomes(f, src, dst, order) ==
    IF ~Exists(f, src) THEN {Outcome("Err:walk", CreateDirAll(f, dst).fs, <<>>)}
    ELSE LET walk == Walk(f, src, order, 0, Cardinality(DOMAIN f))
             all == CopyEntries(f, src, dst, walk, Len(walk))
         IN  {Outcome(IF all.ok THEN "Ok" ELSE "Err:copy", all.fs, <<>>)}
             \cup {Outcome("Err:copy", CopyEntries(f, src, dst, walk, n - 1).fs, <<>>) :
                     n \in {m \in 1..Len(walk) : CopyEntries(f, src, dst, walk, m - 1).ok}}

-----------------------------------------------------------------------------
(* Installer::install                                                      *)

MinDepth == 1
MaxDepth == 3
BinDir == JoinChars(BinName)

\* an install that leaves the old install directory in place
InstallKeepOutcomes(f, install_path) == {Outcome("Ok", f, <<>>)}

\* lines 116-118
InstallRemoveOutcomes(f, install_path) ==
    LET p == ToPath(install_path)
        removed == RemoveDirAll(f, p)
    IN  IF ~Exists(f, p) THEN {Outcome("Ok", f, <<>>)}
        ELSE IF ~removed.ok THEN {Outcome("Err:remove install dir", f, <<>>)}
        ELSE {Outcome("Ok", removed.fs, <<>>),
              Outcome("Err:remove install dir", f, <<>>),
              Outcome("Err:remove install dir", Drop(f, Below(f, p)), <<>>)}

\* line 128
IsRuntimeRoot(f, entry) == IsDir(f, entry) /\ Exists(f, Append(entry, BinDir))

\* lines 121-132: the first entry of the walk that passes the test
RECURSIVE FirstMatch(_, _)
FirstMatch(f, walk) ==
    IF walk = <<>> THEN None
    ELSE IF IsRuntimeRoot(f, Head(walk)) THEN Some(Head(walk))
    ELSE FirstMatch(f, Tail(walk))

\* a walk one level deeper than the program's
LocateDeeper(f, extract_path, order) ==
    FirstMatch(f, Walk(f, ToPath(extract_path), order, MinDepth, MaxDepth + 1))

Locate(f, extract_path, order) ==
    FirstMatch(f, Walk(f, ToPath(extract_path), order, MinDepth, MaxDepth))

-----------------------------------------------------------------------------
(* EnvironmentVariableConfigurator::configure                              *)

EnvStr(v) == [kind |-> "str", v |-> v]
EnvUnset == [kind |-> "unset", v |-> <<>>]
EnvNotUnicode == [kind |-> "not unicode", v |-> <<>>]

\* line 146
JdkBinPath(install_path) == install_path \o <<Sep>> \o BinName

\* line 147: std::env::var fails on an unset or non-unicode value
CurrentPath(e) == IF e.kind = "str" THEN e.v ELSE <<>>

\* a registration without the contains check
ProcessPathAlwaysAppend(e, install_path) ==
    EnvStr(CurrentPath(e) \o <<PathListSep>> \o JdkBinPath(install_path))

\* lines 151-159
ProcessPathAfter(e, install_path) ==
    LET jdk_bin_path == JdkBinPath(install_path)
        current_path == CurrentPath(e)
    IN  IF ~Contains(current_path, jdk_bin_path)
        THEN EnvStr(current_path \o <<PathListSep>> \o jdk_bin_path)
        ELSE e

\* lines 164-172: the generated script
UserPathAfter(up, install_path) ==
    LET jdkPath == JdkBinPath(install_path)
    IN  IF ~Contains(up, jdkPath) THEN up \o <<PathListSep>> \o jdkPath ELSE up

ConfOutcome(ret, script, e, up) ==
    [ret |-> ret, script |-> script, env |-> e, userPath |-> up]

\* a configure whose script is guarded by the process's value of PATH
ConfigureCoupledOutcomes(e, up, install_path) ==
    LET e2 == ProcessPathAfter(e, install_path)
        up2 == IF Contains(CurrentPath(e), JdkBinPath(install_path))
               THEN up ELSE UserPathAfter(up, install_path)
    IN  {ConfOutcome("Err:write script", "not written", e2, up),
         ConfOutcome("Err:launch powershell", "not launched", e2, up),
         ConfOutcome("Ok", "exit 0", e2, up2),
         ConfOutcome("Ok", "exit 1", e2, up),
         ConfOutcome("Ok", "exit 1", e2, up2)}

\* lines 183-195: the script file is written, the subprocess launched and
\* its exit status inspected; a failing script may or may not have stored
\* the new value
ConfigureOutcomes(e, up, install_path) ==
    LET e2 == ProcessPathAfter(e, install_path)
        up2 == UserPathAfter(up, install_path)
    IN  {ConfOutcome("Err:write script", "not written", e2, up),
         ConfOutcome("Err:launch powershell", "not launched", e2, up),
         ConfOutcome("Ok", "exit 0", e2, up2),
         ConfOutcome("Ok", "exit 1", e2, up),
         ConfOutcome("Ok", "exit 1", e2, up2)}

-----------------------------------------------------------------------------
(* JavaSetup::setup                                                        *)

IsOk(ret) == ret = "Ok"

\* lines 227-231
DownloadDir(download_path) == Parent(ToPath(download_path))

\* lines 234-236
EnsureDirOutcomes(f, download_path) ==
    LET download_dir == DownloadDir(download_path)
        made == CreateDirAll(f, download_dir)
    IN  IF Exists(f, download_dir) THEN {Outcome("Ok", f, <<>>)}
        ELSE IF ~made.ok THEN {Outcome("Err:create download dir", f, <<>>)}
        ELSE {Outcome("Ok", made.fs, <<>>),
              Outcome("Err:create download dir", f, <<>>)}

\* a cleanup that deletes nothing
CleanupKeepOutcomes(f, download_path) == {Outcome("Ok", f, <<>>)}

\* lines 250-256
CleanupOutcomes(f, download_path) ==
    LET download_dir == DownloadDir(download_path)
        removed == RemoveDirAll(f, download_dir)
    IN  IF ~Exists(f, download_dir) THEN {Outcome("Ok", f, <<>>)}
        ELSE IF ~removed.ok THEN {Outcome("Err:remove download dir", f, <<>>)}
        ELSE {Outcome("Ok", removed.fs, <<>>),
              Outcome("Err:remove download dir", f, <<>>),
              Outcome("Err:remove download dir", Drop(f, Below(f, download_dir)), <<>>)}

\* the ? operator of setup: an error ends the run and is what setup returns
Begin(stage) == started' = Append(started, stage)

\* a setup that ignores a stage's error and goes on
ReturnIgnoringError(ret, next) ==
    /\ returned' = Append(returned, ret)
    /\ pc' = next
    /\ result' = IF next = "done" THEN "Ok" ELSE result

Return(ret, next) ==
    /\ returned' = Append(returned, ret)
    /\ pc' = IF IsOk(ret) THEN next ELSE "done"
    /\ result' = IF IsOk(ret) THEN (IF next = "done" THEN "Ok" ELSE result) ELSE ret

Remember(field, value) == hist' = [hist EXCEPT ![field] = value]

EnsureDownloadDir ==
    /\ pc = "init"
    /\ \E o \in EnsureDirOutcomes(fs, req.download_path) :
        /\ fs' = o.fs
        /\ Begin("EnsureDownloadDir") /\ Return(o.ret, "download")
    /\ UNCHANGED <<req, dirOrder, net, env, userPath, jdk_dir, requests, calls, hist>>

Fetch ==
    /\ pc = "download"
    /\ \E o \in DownloadOutcomes(fs, req.download_path, net) :
        /\ fs' = o.fs
        /\ requests' = requests \o o.reqs
        /\ Begin("Fetch") /\ Return(o.ret, "extract")
    /\ Remember("fs_fetch", fs)
    /\ UNCHANGED <<req, dirOrder, net, env, userPath, jdk_dir, calls>>

Extract ==
    /\ pc = "extract"
    /\ \E o \in ExtractOutcomes(fs, req.download_path, req.extract_path) :
        /\ fs' = o.fs
        /\ Begin("Extract") /\ Return(o.ret, "install")
    /\ Remember("fs_extract", fs)
    /\ UNCHANGED <<req, dirOrder, net, env, userPath, jdk_dir, requests, calls>>

InstallRemove ==
    /\ pc = "install"
    /\ \E o \in InstallRemoveOutcomes(fs, req.install_path) :
        /\ fs' = o.fs
        /\ Begin("Install")
        /\ IF IsOk(o.ret)
           THEN pc' = "locate" /\ UNCHANGED <<returned, result>>
           ELSE Return(o.ret, "done")
    /\ Remember("fs_install", fs)
    /\ UNCHANGED <<req, dirOrder, net, env, userPath, jdk_dir, requests, calls>>

\* an install that fails when it finds no runtime root
InstallLocateStrict ==
    /\ pc = "locate"
    /\ jdk_dir' = Locate(fs, req.extract_path, dirOrder)
    /\ IF jdk_dir'.some
       THEN pc' = "copy" /\ UNCHANGED <<returned, result>>
       ELSE Return("Err:no runtime root", "configure")
    /\ UNCHANGED <<req, fs, dirOrder, net, env, userPath, started, requests, calls, hist>>

InstallLocate ==
    /\ pc = "locate"
    /\ jdk_dir' = Locate(fs, req.extract_path, dirOrder)
    /\ IF jdk_dir'.some
       THEN pc' = "copy" /\ UNCHANGED <<returned, result>>
       ELSE Return("Ok", "configure")
    /\ UNCHANGED <<req, fs, dirOrder, net, env, userPath, started, requests, calls, hist>>

InstallCopy ==
    /\ pc = "copy"
    /\ \E o \in CopyDirAllOutcomes(fs, jdk_dir.v, ToPath(req.install_path), dirOrder) :
        /\ fs' = o.fs
        /\ Return(o.ret, "configure")
    /\ Remember("fs_copy", fs)
    /\ UNCHANGED <<req, dirOrder, net, env, userPath, jdk_dir, started, requests, calls>>

\* a setup that registers the bin path only when the install directory exists
RegisterPathIfInstalled ==
    /\ pc = "configure"
    /\ \E o \in IF Exists(fs, ToPath(req.install_path))
                THEN ConfigureOutcomes(env, userPath, req.install_path)
                ELSE {ConfOutcome("Ok", "none", env, userPath)} :
        /\ env' = o.env
        /\ userPath' = o.userPath
        /\ Begin("RegisterPath") /\ Return(o.ret, "cleanup")
        /\ Remember("script", o.script)
    /\ UNCHANGED <<req, fs, dirOrder, net, jdk_dir, requests, calls>>

RegisterPath ==
    /\ pc = "configure"
    /\ \E o \in ConfigureOutcomes(env, userPath, req.install_path) :
        /\ env' = o.env
        /\ userPath' = o.userPath
        /\ Begin("RegisterPath") /\ Return(o.ret, "cleanup")
        /\ Remember("script", o.script)
    /\ UNCHANGED <<req, fs, dirOrder, net, jdk_dir, requests, calls>>

Cleanup ==
    /\ pc = "cleanup"
    /\ \E o \in CleanupOutcomes(fs, req.download_path) :
        /\ fs' = o.fs
        /\ Begin("Cleanup") /\ Return(o.ret, "done")
    /\ Remember("fs_cleanup", fs)
    /\ UNCHANGED <<req, dirOrder, net, env, userPath, jdk_dir, requests, calls>>

-----------------------------------------------------------------------------
(* Inputs                                                                  *)

\* main.rs lines 8-10: the install directory lies under the directory of
\* the download
MainRsRequest ==
    [download_path |-> <<"t", Sep, "z">>,
     extract_path |-> <<"t", Sep, "x">>,
     install_path |-> <<"t", Sep, "i", Sep, "j">>]

\* an install directory outside the download directory
SeparateRequest ==
    [download_path |-> <<"t", Sep, "z">>,
     extract_path |-> <<"t", Sep, "x">>,
     install_path |-> <<"c", Sep, "j">>]

\* an install directory that is the directory of the download
OverlapRequest ==
    [download_path |-> <<"t", Sep, "z">>,
     extract_path |-> <<"t", Sep, "x">>,
     install_path |-> <<"t">>]

Requests == {MainRsRequest, SeparateRequest, OverlapRequest}

\* the names a directory listing can hold, in one listing order
NameOrder ==
    <<"a", "b", "bin", "c", "d", "e", "i", "j", "j17", "java", "old",
      "release", "t", "x", "z">>

RECURSIVE Reverse(_)
Reverse(q) == IF q = <<>> THEN <<>> ELSE Append(Reverse(Tail(q)), Head(q))

Orders == {NameOrder, Reverse(NameOrder)}

FileEntry(name, bytes) == [name |-> name, dir |-> FALSE, bytes |-> bytes]
DirEntry(name) == [name |-> name, dir |-> TRUE, bytes |-> ""]

\* the archive of the end-to-end scenario: the runtime root at depth 1
JdkZip ==
    <<FileEntry(<<"j17", "bin", "java">>, "java"),
      FileEntry(<<"j17", "release">>, "release")>>
\* the runtime root at depth 4
DeepZip == <<FileEntry(<<"a", "b", "c", "d", "bin", "java">>, "java")>>
\* a file and then an entry below it: the second entry cannot be written
ConflictZip ==
    <<FileEntry(<<"a">>, "a"), FileEntry(<<"a", "bin", "java">>, "java")>>
\* an archive left by an earlier run
StaleZip ==
    <<DirEntry(<<"j">>), FileEntry(<<"j", "bin", "java">>, "old java")>>

GoodPackage(l) == JObj([k \in {"link"} |-> JStr(l)])
GoodBinary(l) == JObj([k \in {"package"} |-> GoodPackage(l)])
Release(bs) == JObj([k \in {"binaries"} |-> JArr(bs)])
GoodCatalog ==
    JArr(<<Release(<<GoodBinary("L1"), GoodBinary("L2")>>),
           Release(<<GoodBinary("L3")>>)>>)

CatalogBody(value) == [transport |-> "ok", json |-> TRUE, value |-> value]
CatalogNotJson == [transport |-> "ok", json |-> FALSE, value |-> JNull]
CatalogUnreachable == [transport |-> "fail", json |-> FALSE, value |-> JNull]

ArchiveBody(node) == [get |-> "ok", body_ok |-> TRUE, node |-> node]
ArchiveBroken == [get |-> "ok", body_ok |-> FALSE, node |-> FileNode("")]
ArchiveUnreachable == [get |-> "fail", body_ok |-> FALSE, node |-> FileNode("")]

Net(c, a) == [catalog |-> c, archive |-> a]

PipelineNets ==
    {Net(CatalogBody(GoodCatalog), a) :
        a \in {ArchiveBody(ZipNode(JdkZip)), ArchiveBody(ZipNode(DeepZip)),
               ArchiveBody(ZipNode(ConflictZip)), ArchiveBody(FileNode("html")),
               ArchiveBroken, ArchiveUnreachable}}
    \cup {Net(c, ArchiveUnreachable) :
            c \in {CatalogBody(JArr(<<>>)), CatalogNotJson, CatalogUnreachable}}

EmptyFs == [p \in {} |-> DirNode]

PriorInstall(f, install_path) ==
    LET ins == ToPath(install_path)
        dirs == CreateDirAll(f, ins \o <<"bin">>).fs
    IN  Put(Put(dirs, ins \o <<"old">>, FileNode("old")),
            ins \o <<"bin", "java">>, FileNode("old java"))

InitialFs(r) ==
    LET dl == ToPath(r.download_path)
        ex == ToPath(r.extract_path)
        withDir == CreateDirAll(EmptyFs, DownloadDir(r.download_path)).fs
        stale == Put(withDir, dl, ZipNode(StaleZip))
    IN  {EmptyFs,
         withDir,
         PriorInstall(stale, r.install_path),
         PriorInstall(Put(CreateDirAll(withDir, ex).fs, ex \o <<"old">>, FileNode("old")),
                      r.install_path)}

OtherEntry == <<"p">>
InitialEnvs(r) ==
    {EnvStr(OtherEntry),
     EnvStr(OtherEntry \o <<PathListSep>> \o JdkBinPath(r.install_path)),
     EnvUnset, EnvNotUnicode}
InitialUserPaths(r) ==
    {OtherEntry, OtherEntry \o <<PathListSep>> \o JdkBinPath(r.install_path)}

InitHist == [fs0 |-> fs, env0 |-> env, user0 |-> userPath, fs_fetch |-> fs,
             fs_extract |-> fs, fs_install |-> fs, fs_copy |-> fs,
             fs_cleanup |-> fs, script |-> "none", envs |-> <<>>, paths |-> <<>>]

InitRun(first) ==
    /\ pc = first
    /\ jdk_dir = None
    /\ started = <<>>
    /\ returned = <<>>
    /\ result = "running"
    /\ requests = <<>>
    /\ calls = 0
    /\ hist = InitHist

\* one run of setup from a request, a file system, a remote side and an
\* environment
Init ==
    /\ req \in Requests
    /\ fs \in InitialFs(req)
    /\ dirOrder \in Orders
    /\ net \in PipelineNets
    /\ env \in InitialEnvs(req)
    /\ userPath \in InitialUserPaths(req)
    /\ InitRun("init")

Next ==
    \/ EnsureDownloadDir
    \/ Fetch
    \/ Extract
    \/ InstallRemove
    \/ InstallLocate
    \/ InstallCopy
    \/ RegisterPath
    \/ Cleanup

Spec == Init /\ [][Next]_vars

-----------------------------------------------------------------------------
(* Properties of setup                                                     *)

StageOrder ==
    <<"EnsureDownloadDir", "Fetch", "Extract", "Install", "RegisterPath", "Cleanup">>

AllOk(rets) == \A i \in 1..Len(rets) : IsOk(rets[i])
Last(q) == q[Len(q)]

\* C1: the stages start in the fixed order, each at most once; a stage
\* starts only after every earlier stage returned success; a stage's error
\* ends the run, no later stage starts and setup returns that error; setup
\* returns success only after all six stages returned success.
C1_StagesInOrder ==
    /\ Len(started) <= Len(StageOrder)
    /\ started = SubSeq(StageOrder, 1, Len(started))
    /\ Len(returned) \in {Len(started), Len(started) - 1}
    /\ started # <<>> => AllOk(SubSeq(returned, 1, Len(started) - 1))
    /\ ~AllOk(returned) =>
          /\ pc = "done"
          /\ Len(started) = Len(returned)
          /\ result = Last(returned)
    /\ pc = "done" =>
          \/ result = "Ok" /\ started = StageOrder /\ AllOk(returned)
                /\ Len(returned) = Len(StageOrder)
          \/ ~AllOk(returned)
    /\ pc # "done" => result = "running"

\* a run that ends with the error of its third stage
C1_Witness ==
    /\ pc = "done"
    /\ started = SubSeq(StageOrder, 1, 3)
    /\ result = "Err:write entry"

\* the paths under the download directory that the run created or changed
WrittenUnder(dir) ==
    UNION {{p \in DOMAIN snap : /\ IsPrefix(dir, p)
                                /\ (p \notin DOMAIN hist.fs0 \/ snap[p] # hist.fs0[p])} :
             snap \in {hist.fs_fetch, hist.fs_extract, hist.fs_install, hist.fs_copy, fs}}

FailedAt(stages) ==
    /\ pc = "done"
    /\ ~IsOk(result)
    /\ Last(started) \in stages

\* C2: when Fetch, Extract, Install or RegisterPath fails, the download
\* directory and everything the run wrote under it exist when setup
\* returns; the download directory is deleted only in runs in which the
\* four stages returned success.
C2_ArtifactsKeptOnFailure ==
    LET dir == DownloadDir(req.download_path)
    IN  pc = "done" =>
          /\ FailedAt({"Fetch", "Extract", "Install", "RegisterPath"}) =>
                /\ IsDir(fs, dir)
                /\ WrittenUnder(dir) \subseteq DOMAIN fs
          /\ (IsOk(returned[1]) /\ ~Exists(fs, dir)) =>
                /\ Len(returned) >= 5
                /\ AllOk(SubSeq(returned, 1, 5))

\* the files and directories below p, by their path relative to p
TreeAt(f, p) ==
    [rel \in {SubSeq(q, Len(p) + 1, Len(q)) : q \in Below(f, p)} |-> f[p \o rel]]

\* C3: a successful run that resolved a link, fetched and extracted an
\* archive with a runtime root within the depth bound ends with the install
\* directory holding the runtime root's files and the process PATH
\* containing install_path\bin.
C3_InstalledAtDone ==
    (pc = "done" /\ result = "Ok" /\ Len(requests) = 2 /\ jdk_dir.some) =>
        /\ IsDir(fs, ToPath(req.install_path))
        /\ TreeAt(fs, ToPath(req.install_path)) = TreeAt(hist.fs_copy, jdk_dir.v)
        /\ Contains(CurrentPath(env), JdkBinPath(req.install_path))

\* failures of the local machine that no stage's input decides
EnvironmentFailures ==
    {"Err:write entry", "Err:copy", "Err:remove install dir", "Err:write script",
     "Err:launch powershell", "Err:remove download dir"}

\* C8: with the catalog response [] download reports the missing link and
\* returns success, and setup then returns no error (other than a failure
\* of the local machine), whatever is at download_path.
C8_MissingLinkNoError ==
    (/\ pc = "done"
     /\ net.catalog = CatalogBody(JArr(<<>>))
     /\ Len(returned) >= 2) =>
        /\ IsOk(returned[2])
        /\ IsOk(result) \/ result \in EnvironmentFailures

\* C9: a failed registration (the script not written, the subprocess not
\* launched, a non-zero exit) does not end the run: Cleanup starts and setup
\* returns what Cleanup returns.
C9_RegistrationFailureGoesOn ==
    (Len(returned) >= 5 /\ hist.script \in {"not written", "not launched", "exit 1"}) =>
        /\ IsOk(returned[5])
        /\ pc \in {"cleanup", "done"}
        /\ pc = "done" => Len(started) = Len(StageOrder)

\* C12: when setup returns success the download directory, the parent of
\* download_path, and everything under it do not exist; when the download
\* directory is absent at the start of Cleanup, Cleanup changes nothing and
\* setup returns success.
C12_CleanupRemovesDownloadDir ==
    LET dir == DownloadDir(req.download_path)
    IN  /\ (pc = "done" /\ result = "Ok") =>
              /\ ~Exists(fs, dir)
              /\ Under(fs, dir) = {}
        /\ (Len(started) = Len(StageOrder) /\ ~Exists(hist.fs_cleanup, dir)) =>
              /\ pc = "done" /\ result = "Ok"
              /\ fs = hist.fs_cleanup

\* a successful run whose Cleanup found the download directory with the
\* archive and the extracted files in it
C12_Witness ==
    LET dir == DownloadDir(req.download_path)
    IN  /\ pc = "done" /\ result = "Ok"
        /\ IsFile(hist.fs_cleanup, ToPath(req.download_path))
        /\ IsFile(hist.fs_cleanup, ToPath(req.extract_path) \o <<"j17", "bin", "java">>)
        /\ Under(fs, dir) = {}

\* a successful run whose Cleanup found no download directory
C12_AbsentAtCleanup ==
    /\ pc = "done" /\ result = "Ok"
    /\ ~Exists(hist.fs_cleanup, DownloadDir(req.download_path))

-----------------------------------------------------------------------------
(* Installer::install on its own: extracted trees and earlier installs     *)

MaxEntries == 2

SeqsUpTo(S, n) == UNION {[1..k -> S] : k \in 0..n}

TreePool ==
    {FileEntry(<<"bin", "java">>, "java0"),
     FileEntry(<<"a", "bin", "java">>, "java1"),
     FileEntry(<<"a", "b", "bin", "java">>, "java2"),
     FileEntry(<<"a", "b", "c", "bin", "java">>, "java3"),
     FileEntry(<<"a", "b", "c", "d", "bin", "java">>, "java4"),
     FileEntry(<<"b", "bin">>, "a file named bin"),
     FileEntry(<<"a", "release">>, "release"),
     DirEntry(<<"e", "bin">>)}

\* what extract leaves for the archives of up to MaxEntries entries
ExtractedTrees(r) ==
    LET base == CreateDirAll(EmptyFs, DownloadDir(r.download_path)).fs
        Run(es) == ExtractEntries(base, r.extract_path, es, Len(es))
    IN  {Run(es).fs : es \in {x \in SeqsUpTo(TreePool, MaxEntries) : Run(x).ok}}

EarlierInstalls(f, r) ==
    LET ins == ToPath(r.install_path)
    IN  {f, PriorInstall(f, r.install_path),
         Put(CreateDirAll(f, Parent(ins)).fs, ins, FileNode("not a directory"))}

InitInstall ==
    /\ req \in Requests
    /\ \E tree \in ExtractedTrees(req) : fs \in EarlierInstalls(tree, req)
    /\ dirOrder \in Orders
    /\ net = Net(CatalogUnreachable, ArchiveUnreachable)
    /\ env = EnvUnset
    /\ userPath = <<>>
    /\ InitRun("install")

NextInstall ==
    \/ InstallRemove
    \/ InstallLocate
    \/ InstallCopy

SpecInstall == InitInstall /\ [][NextInstall]_vars

InstallReturned == pc = "configure" /\ Last(started) = "Install"

\* C4: once install starts to look for the runtime root the old install
\* directory is gone, and after a successful install that found a runtime
\* root the install directory holds exactly the runtime root's files and
\* directories, same relative paths and contents.
C4_RelocationOverwrite ==
    LET ins == ToPath(req.install_path)
    IN  /\ pc \in {"locate", "copy"} => ~Exists(fs, ins)
        /\ (InstallReturned /\ IsOk(Last(returned)) /\ jdk_dir.some) =>
              /\ IsDir(fs, ins)
              /\ TreeAt(fs, ins) = TreeAt(hist.fs_install, jdk_dir.v)

\* an earlier install with other files was there and is replaced
C4_Witness ==
    LET ins == ToPath(req.install_path)
    IN  /\ InstallReturned /\ IsOk(Last(returned)) /\ jdk_dir.some
        /\ IsFile(hist.fs_install, ins \o <<"old">>)
        /\ ~Exists(fs, ins \o <<"old">>)
        /\ IsFile(fs, ins \o <<"bin", "java">>)
        /\ fs[ins \o <<"bin", "java">>] # hist.fs_install[ins \o <<"bin", "java">>]

Rank(n) == CHOOSE i \in 1..Len(dirOrder) : dirOrder[i] = n

\* p comes before q in a pre-order walk that lists directories in dirOrder
Precedes(p, q) ==
    /\ p # q
    /\ \/ IsPrefix(p, q)
       \/ \E i \in 1..Len(p) :
            /\ i <= Len(q)
            /\ SubSeq(p, 1, i - 1) = SubSeq(q, 1, i - 1)
            /\ p[i] # q[i]
            /\ Rank(p[i]) < Rank(q[i])

\* the directories 1 to 3 levels below root that have a child named bin
Candidates(f, root) ==
    {q \in DOMAIN f : /\ IsPrefix(root, q)
                      /\ Len(q) - Len(root) \in 1..3
                      /\ IsDir(f, q)
                      /\ Exists(f, Append(q, "bin"))}

\* C5: the runtime root that install selects is the first directory of the
\* walk, 1 to 3 levels below the extract directory, with a child named bin;
\* when there is none install reports that and returns success.
C5_Locator ==
    LET cands == Candidates(fs, ToPath(req.extract_path))
    IN  /\ pc = "copy" =>
              /\ jdk_dir.some
              /\ jdk_dir.v \in cands
              /\ \A c \in cands \ {jdk_dir.v} : Precedes(jdk_dir.v, c)
        /\ (InstallReturned /\ ~jdk_dir.some) =>
              /\ cands = {}
              /\ IsOk(Last(returned))
              /\ fs = hist.fs_install \/ ~Exists(fs, ToPath(req.install_path))

\* the only directory with a bin child is 2 levels down and is selected
C5_Witness ==
    LET ex == ToPath(req.extract_path)
    IN  /\ pc = "copy"
        /\ Candidates(fs, ex) = {ex \o <<"a", "b">>}
        /\ jdk_dir = Some(ex \o <<"a", "b">>)

-----------------------------------------------------------------------------
(* configure on its own: repeated calls                                    *)

MaxCalls == 2

ConfigurePaths == {r.install_path : r \in Requests}

ConfigureEnvs(r) ==
    LET target == JdkBinPath(r.install_path)
    IN  {EnvStr(<<>>), EnvStr(OtherEntry),
         EnvStr(OtherEntry \o <<PathListSep>> \o target),
         EnvStr(target \o <<PathListSep>> \o OtherEntry \o <<PathListSep>> \o target),
         EnvStr(target \o <<"2">>),
         EnvUnset, EnvNotUnicode}

InitConfigure ==
    /\ req \in Requests
    /\ fs = EmptyFs
    /\ dirOrder = NameOrder
    /\ net = Net(CatalogUnreachable, ArchiveUnreachable)
    /\ env \in ConfigureEnvs(req)
    /\ userPath \in {<<>>} \cup InitialUserPaths(req)
    /\ InitRun("call configure")

ConfigureCall ==
    /\ pc = "call configure"
    /\ calls < MaxCalls
    /\ \E ip \in ConfigurePaths :
         \E o \in ConfigureOutcomes(env, userPath, ip) :
            /\ env' = o.env
            /\ userPath' = o.userPath
            /\ started' = Append(started, "configure")
            /\ returned' = Append(returned, o.ret)
            /\ hist' = [hist EXCEPT !.envs = Append(@, o.env),
                                    !.paths = Append(@, ip),
                                    !.script = o.script]
    /\ calls' = calls + 1
    /\ UNCHANGED <<req, fs, dirOrder, net, pc, jdk_dir, result, requests>>

NextConfigure == ConfigureCall

SpecConfigure == InitConfigure /\ [][NextConfigure]_vars

\* the process PATH before the k-th call
EnvBefore(k) == IF k = 1 THEN hist.env0 ELSE hist.envs[k - 1]

SamePathCalls == {k \in 1..(Len(hist.paths) - 1) : hist.paths[k] = hist.paths[k + 1]}

\* C6 as stated: after two calls with the same install path the process
\* PATH contains the target exactly once, whatever it was before; a call
\* leaves PATH alone when it contains the target as a substring.
C6_ExactlyOnce ==
    /\ \A k \in SamePathCalls :
          Occurrences(CurrentPath(hist.envs[k + 1]), JdkBinPath(hist.paths[k])) = 1
    /\ \A k \in 1..Len(hist.paths) :
          Contains(CurrentPath(EnvBefore(k)), JdkBinPath(hist.paths[k])) =>
              hist.envs[k] = EnvBefore(k)

Max(a, b) == IF a >= b THEN a ELSE b

\* C6 amended: two calls with the same install path append the target at
\* most once: the second call leaves PATH unchanged, PATH then contains the
\* target max(1, n) times, n the number of times it did before the first of
\* the two calls; a call leaves PATH alone when it contains the target as a
\* substring.
C6_AppendedAtMostOnce ==
    /\ \A k \in SamePathCalls :
          LET target == JdkBinPath(hist.paths[k])
          IN  /\ hist.envs[k + 1] = hist.envs[k]
              /\ Occurrences(CurrentPath(hist.envs[k + 1]), target)
                    = Max(1, Occurrences(CurrentPath(EnvBefore(k)), target))
    /\ \A k \in 1..Len(hist.paths) :
          Contains(CurrentPath(EnvBefore(k)), JdkBinPath(hist.paths[k])) =>
              hist.envs[k] = EnvBefore(k)

\* two calls with the same path from a PATH without the target
C6_Witness ==
    /\ calls = 2
    /\ hist.paths[1] = hist.paths[2]
    /\ hist.env0 = EnvStr(OtherEntry)
    /\ env = EnvStr(OtherEntry \o <<PathListSep>> \o JdkBinPath(hist.paths[1]))

-----------------------------------------------------------------------------
(* download on its own: catalog responses                                  *)

Obj1(key, v) == JObj([k \in {key} |-> v])

\* catalog bodies that are JSON; only the first is navigable to a link
Catalogs ==
    {GoodCatalog,
     JArr(<<>>),
     Release(<<GoodBinary("L1")>>),
     JStr("L1"),
     JArr(<<JStr("L1"), Release(<<GoodBinary("L1")>>)>>),
     JArr(<<Obj1("other", JNull)>>),
     JArr(<<Obj1("binaries", GoodBinary("L1"))>>),
     JArr(<<Release(<<>>), Release(<<GoodBinary("L3")>>)>>),
     JArr(<<Release(<<JNull, GoodBinary("L2")>>)>>),
     JArr(<<Release(<<Obj1("other", GoodPackage("L1"))>>)>>),
     JArr(<<Release(<<Obj1("package", JStr("L1"))>>)>>),
     JArr(<<Release(<<Obj1("package", Obj1("url", JStr("L1")))>>)>>),
     JArr(<<Release(<<Obj1("package", Obj1("link", JNull))>>)>>),
     JArr(<<Release(<<Obj1("package", Obj1("link", JNum))>>)>>),
     JArr(<<Release(<<GoodBinary("L2")>>)>>)}

DownloadNets ==
    {Net(c, a) :
        c \in {CatalogBody(v) : v \in Catalogs} \cup {CatalogNotJson, CatalogUnreachable},
        a \in {ArchiveBody(ZipNode(JdkZip)), ArchiveBroken, ArchiveUnreachable}}

\* no download directory, an empty one, one with an archive of an earlier run
DownloadFs(r) ==
    LET withDir == CreateDirAll(EmptyFs, DownloadDir(r.download_path)).fs
    IN  {EmptyFs, withDir, Put(withDir, ToPath(r.download_path), ZipNode(StaleZip))}

InitDownload ==
    /\ req \in Requests
    /\ fs \in DownloadFs(req)
    /\ dirOrder = NameOrder
    /\ net \in DownloadNets
    /\ env = EnvUnset
    /\ userPath = <<>>
    /\ InitRun("download")

NextDownload == Fetch

SpecDownload == InitDownload /\ [][NextDownload]_vars

\* the six steps of the navigation, each on the value the step before gave
NavigationOk(v) ==
    /\ v.t = "arr" /\ v.a # <<>>
    /\ v.a[1].t = "obj" /\ "binaries" \in DOMAIN v.a[1].o
    /\ LET bs == v.a[1].o["binaries"]
       IN  /\ bs.t = "arr" /\ bs.a # <<>>
           /\ bs.a[1].t = "obj" /\ "package" \in DOMAIN bs.a[1].o
           /\ LET pkg == bs.a[1].o["package"]
              IN  /\ pkg.t = "obj" /\ "link" \in DOMAIN pkg.o
                  /\ pkg.o["link"].t = "str"

FirstLink(v) == v.a[1].o["binaries"].a[1].o["package"].o["link"].s

DownloadReturned == Last(started) = "Fetch" /\ Len(returned) = Len(started)

\* C7: a JSON body whose navigation fails at any step makes download return
\* success with no archive GET and no file created or truncated; a body
\* that is no JSON, or a failed catalog request, makes it return an error;
\* a navigable body makes it GET the link of the first binary of the first
\* release.
C7_ResolverOutcome ==
    (started # <<>> /\ DownloadReturned) =>
        LET c == net.catalog
        IN  /\ (c.transport = "fail" \/ ~c.json) =>
                  /\ ~IsOk(Last(returned))
                  /\ requests = <<CatalogUrl>>
            /\ (c.transport = "ok" /\ c.json /\ ~NavigationOk(c.value)) =>
                  /\ IsOk(Last(returned))
                  /\ requests = <<CatalogUrl>>
                  /\ fs = hist.fs_fetch
            /\ (c.transport = "ok" /\ c.json /\ NavigationOk(c.value)) =>
                  requests = <<CatalogUrl, FirstLink(c.value)>>

\* the link of the first binary is no string, a stale archive is in place
C7_Witness ==
    /\ started # <<>> /\ DownloadReturned
    /\ net.catalog.value = JArr(<<Release(<<Obj1("package", Obj1("link", JNull))>>)>>)
    /\ IsOk(Last(returned))
    /\ IsFile(fs, ToPath(req.download_path))
    /\ fs[ToPath(req.download_path)] = ZipNode(StaleZip)

-----------------------------------------------------------------------------
(* extract on its own: archives and earlier content of the extract dir     *)

EntryPool ==
    {FileEntry(<<"j", "bin", "java">>, "java"),
     FileEntry(<<"j", "release">>, "release"),
     FileEntry(<<"j", "release">>, "release 2"),
     FileEntry(<<"j">>, "a file named j"),
     FileEntry(<<"old">>, "new"),
     FileEntry(<<"..", "e">>, "up"),
     FileEntry(<<"/", "e">>, "absolute"),
     FileEntry(<<"..">>, "parent"),
     DirEntry(<<"..">>),
     DirEntry(<<"j">>),
     DirEntry(<<"j", "bin">>)}

Archives == SeqsUpTo(EntryPool, MaxEntries)

\* the extract directory before the call: absent, empty, or with files of
\* an earlier extraction
ExtractDirsBefore(f, r) ==
    LET ex == ToPath(r.extract_path)
        empty == CreateDirAll(f, ex).fs
    IN  {f, empty,
         Put(empty, ex \o <<"old">>, FileNode("old")),
         Put(Put(CreateDirAll(f, ex \o <<"j", "a">>).fs,
                 ex \o <<"j", "release">>, FileNode("old release")),
             ex \o <<"d">>, FileNode("old"))}

\* an extract directory whose parent directory may be missing
NestedExtractRequest ==
    [download_path |-> <<"t", Sep, "z">>,
     extract_path |-> <<"t", Sep, "c", Sep, "x">>,
     install_path |-> <<"c", Sep, "j">>]

ExtractRequests == Requests \cup {NestedExtractRequest}

InitExtract ==
    /\ req \in ExtractRequests
    /\ \E es \in Archives :
         \E f \in ExtractDirsBefore(
                    CreateDirAll(EmptyFs, DownloadDir(req.download_path)).fs, req) :
            fs = Put(f, ToPath(req.download_path), ZipNode(es))
    /\ dirOrder = NameOrder
    /\ net = Net(CatalogUnreachable, ArchiveUnreachable)
    /\ env = EnvUnset
    /\ userPath = <<>>
    /\ InitRun("extract")

NextExtract == Extract

SpecExtract == InitExtract /\ [][NextExtract]_vars

ExtractSucceeded ==
    /\ started # <<>> /\ Last(started) = "Extract"
    /\ Len(returned) = Len(started) /\ IsOk(Last(returned))

ArchiveEntries == hist.fs_extract[ToPath(req.download_path)].entries

FilePairs(tree) == {<<q, tree[q].bytes>> : q \in {x \in DOMAIN tree : tree[x].k = "file"}}

\* C10 as stated: after a successful extract the listing of the extract
\* directory is the archive's (path, content) pairs, none extra and none
\* missing, and the archive's directory entries are directories, whatever
\* the directory held before.
C10_ExactListing ==
    ExtractSucceeded =>
        LET tree == TreeAt(fs, ToPath(req.extract_path))
            entries == ArchiveEntries
            E == {entries[i] : i \in 1..Len(entries)}
        IN  /\ FilePairs(tree) = {<<SanitizedName(e.name), e.bytes>> : e \in {x \in E : ~x.dir}}
            /\ \A e \in {x \in E : x.dir} :
                  SanitizedName(e.name) \in DOMAIN tree /\ tree[SanitizedName(e.name)].k = "dir"

\* the last entry of the archive written to the relative path q
LastNamed(entries, q) ==
    entries[CHOOSE i \in 1..Len(entries) :
               /\ SanitizedName(entries[i].name) = q
               /\ \A j \in (i + 1)..Len(entries) : SanitizedName(entries[j].name) # q]

\* C10 amended: after a successful extract the extract directory holds the
\* archive laid over what it held before: every entry under its sanitized
\* name (a file with the content of the last entry of that name, a
\* directory for a directory entry), the parent directories of the
\* entries, and every file and directory that was there before and that no
\* entry names; so the listing is exactly the archive's content when the
\* directory was absent or empty before.
C10_ArchiveOverEarlierContent ==
    ExtractSucceeded =>
        LET ex == ToPath(req.extract_path)
            tree == TreeAt(fs, ex)
            before == TreeAt(hist.fs_extract, ex)
            entries == ArchiveEntries
            named == {SanitizedName(entries[i].name) : i \in 1..Len(entries)} \ {<<>>}
            parents == UNION {Prefixes(Parent(q)) : q \in named}
        IN  /\ DOMAIN tree = named \cup parents \cup DOMAIN before
            /\ \A q \in DOMAIN tree :
                  IF q \in named
                  THEN LET e == LastNamed(entries, q)
                       IN  tree[q] = IF e.dir THEN DirNode ELSE FileNode(e.bytes)
                  ELSE IF q \in parents THEN tree[q] = DirNode
                  ELSE tree[q] = before[q]

\* two entries extracted next to a file of an earlier extraction, which stays
C10_Witness ==
    LET ex == ToPath(req.extract_path)
    IN  /\ ExtractSucceeded
        /\ Len(ArchiveEntries) = 2
        /\ IsFile(hist.fs_extract, ex \o <<"old">>)
        /\ IsFile(fs, ex \o <<"old">>) /\ fs[ex \o <<"old">>] = FileNode("old")
        /\ IsFile(fs, ex \o <<"j", "bin", "java">>)
        /\ IsFile(fs, ex \o <<"j", "release">>)

ExtractReturned ==
    /\ started # <<>> /\ Last(started) = "Extract"
    /\ Len(returned) = Len(started)

\* the paths that one file system holds otherwise than the other
Changed(before, after) ==
    {p \in DOMAIN before \cup DOMAIN after :
        p \notin DOMAIN before \/ p \notin DOMAIN after \/ before[p] # after[p]}

\* C11: whatever the names of the archive's entries, parent-traversal and
\* absolute names included, every file or directory that extract creates or
\* writes lies below the extract directory; outside it nothing is created
\* or changed, but for the extract directory itself and its missing parent
\* directories, which are created as directories.  This holds for an
\* extract that stops with an error as well.
C11_EntriesStayInside ==
    ExtractReturned =>
        LET ex == ToPath(req.extract_path)
        IN  \A p \in Changed(hist.fs_extract, fs) :
                /\ p \in DOMAIN fs
                /\ \/ IsPrefix(ex, p) /\ p # ex
                   \/ /\ IsPrefix(p, ex)
                      /\ p \notin DOMAIN hist.fs_extract
                      /\ fs[p] = DirNode

\* an entry named ..\e and an entry named \e are both written to e in the
\* extract directory and nothing appears next to the extract directory
C11_Witness ==
    LET ex == ToPath(req.extract_path)
        entries == ArchiveEntries
    IN  /\ ExtractSucceeded
        /\ Len(entries) = 2
        /\ entries[1].name = <<"..", "e">>
        /\ entries[2].name = <<"/", "e">>
        /\ IsFile(fs, ex \o <<"e">>)
        /\ fs[ex \o <<"e">>] = FileNode("absolute")
        /\ ~Exists(fs, Parent(ex) \o <<"e">>)
        /\ ~Exists(fs, <<"e">>)

-----------------------------------------------------------------------------
(* setup when install finds no runtime root                                *)

\* install returned success without a runtime root
RootNotFound ==
    /\ Len(returned) >= 4
    /\ IsOk(returned[4])
    /\ ~jdk_dir.some

\* C13: when no directory 1 to 3 levels below the extract directory has a
\* child named bin, install copies nothing and returns success; the run is
\* not ended by it: RegisterPath starts next, Cleanup starts when
\* RegisterPath returned success, and setup returns what these return.
C13_SoftFailure ==
    /\ [][(pc = "locate" /\ Candidates(fs, ToPath(req.extract_path)) = {}) =>
             /\ fs' = fs
             /\ ~jdk_dir'.some
             /\ returned' = Append(returned, "Ok")
             /\ pc' = "configure"
             /\ result' = "running"]_vars
    /\ [](RootNotFound =>
             /\ pc = "done" => Len(started) >= 5
             /\ (Len(returned) >= 5 /\ IsOk(returned[5])) =>
                    pc = "cleanup" \/ Len(started) = Len(StageOrder)
             /\ (pc = "done" /\ AllOk(returned)) =>
                    result = "Ok" /\ started = StageOrder)

\* the archive with the runtime root at depth 4 was fetched and extracted,
\* install found no runtime root, and setup returned success after
\* RegisterPath and Cleanup
C13_Witness ==
    /\ RootNotFound
    /\ pc = "done" /\ result = "Ok"
    /\ started = StageOrder
    /\ IsFile(hist.fs_cleanup,
              ToPath(req.extract_path) \o <<"a", "b", "c", "d", "bin", "java">>)
    /\ ~Exists(hist.fs_cleanup, ToPath(req.install_path))

-----------------------------------------------------------------------------
(* configure: the process PATH and the user PATH                           *)

\* the bin path of the last call of configure
LastTarget == JdkBinPath(Last(hist.paths))

\* C14: in every call of configure the process PATH is appended to exactly
\* when the process PATH did not contain the bin path, whatever the user
\* PATH holds; the script is run whether or not the process PATH contained
\* the bin path, and when it exits with 0 the user PATH is appended to
\* exactly when the user PATH did not contain the bin path, whatever the
\* process PATH holds; so after a call whose subprocess succeeds both
\* contain the bin path.
C14_IndependentUpdates ==
    [][calls' = calls + 1 =>
          LET target == JdkBinPath(Last(hist'.paths))
              appended(v) == v \o <<PathListSep>> \o target
          IN  /\ Contains(CurrentPath(env), target) => env' = env
              /\ ~Contains(CurrentPath(env), target) =>
                     env' = EnvStr(appended(CurrentPath(env)))
              /\ hist'.script = "exit 0" =>
                     /\ Contains(userPath, target) => userPath' = userPath
                     /\ ~Contains(userPath, target) => userPath' = appended(userPath)
                     /\ Contains(CurrentPath(env'), target)
                     /\ Contains(userPath', target)]_vars

\* the process PATH held the bin path and the user PATH did not: after one
\* call with exit status 0 the process PATH is as before and the user PATH
\* holds the bin path
C14_Witness ==
    /\ calls = 1
    /\ hist.script = "exit 0"
    /\ Contains(CurrentPath(hist.env0), LastTarget)
    /\ ~Contains(hist.user0, LastTarget)
    /\ env = hist.env0
    /\ userPath = hist.user0 \o <<PathListSep>> \o LastTarget

\* the reverse: the user PATH held the bin path and the process PATH did not
C14_ProcessStale ==
    /\ calls = 1
    /\ hist.script = "exit 0"
    /\ ~Contains(CurrentPath(hist.env0), LastTarget)
    /\ Contains(hist.user0, LastTarget)
    /\ userPath = hist.user0
    /\ env = EnvStr(CurrentPath(hist.env0) \o <<PathListSep>> \o LastTarget)

-----------------------------------------------------------------------------
(* install: the marker of the runtime root                                 *)

\* C15: the directory that install selects as runtime root has an
\* immediate child named bin that is a directory; a regular file named bin
\* does not make its parent a runtime root.
C15_MarkerIsDirectory ==
    (pc = "copy" /\ jdk_dir.some) =>
        /\ IsDir(fs, jdk_dir.v)
        /\ IsDir(fs, Append(jdk_dir.v, "bin"))

-----------------------------------------------------------------------------
(* install without a runtime root: the earlier installation                *)

\* C16: install removes an existing install directory before it looks for
\* the runtime root, so when install found no runtime root the install
\* directory does not exist, up to the end of the run; RegisterPath then
\* still puts install_path\bin on the process PATH: it appends it when PATH
\* did not contain it.
C16_NotFoundLeavesNoInstall ==
    LET ins == ToPath(req.install_path)
        target == JdkBinPath(req.install_path)
        before == CurrentPath(hist.env0)
    IN  /\ pc = "locate" => ~Exists(fs, ins)
        /\ RootNotFound => ~Exists(fs, ins)
        /\ (RootNotFound /\ Len(started) >= 5) =>
              /\ Contains(CurrentPath(env), target)
              /\ ~Contains(before, target) =>
                    env = EnvStr(before \o <<PathListSep>> \o target)

\* an earlier installation was in place, the fetched archive has its
\* runtime root too deep: the installation is gone and PATH got the entry
C16_Witness ==
    LET ins == ToPath(req.install_path)
    IN  /\ RootNotFound /\ Len(started) >= 5
        /\ IsFile(hist.fs_install, ins \o <<"bin", "java">>)
        /\ IsFile(hist.fs_install,
                  ToPath(req.extract_path) \o <<"a", "b", "c", "d", "bin", "java">>)
        /\ ~Exists(fs, ins)
        /\ hist.env0 = EnvStr(OtherEntry)
        /\ env = EnvStr(OtherEntry \o <<PathListSep>> \o JdkBinPath(req.install_path))

-----------------------------------------------------------------------------
(* configure: what happens to the PATH that was there                      *)

\* the value a of PATH begins with the value b
ValuePrefix(b, a) ==
    \/ a = b
    \/ /\ b.kind # "not unicode"
       /\ a.kind = "str"
       /\ IsPrefix(b.v, a.v)

\* C17: after any number of calls of configure, with any install paths,
\* the process PATH begins with the value it had before the first call;
\* each call either leaves PATH as it is or adds one separator ; and
\* install_path\bin to the end of the value it had.
C17_AppendOnly ==
    /\ ValuePrefix(hist.env0, env)
    /\ \A k \in 1..Len(hist.envs) :
          LET b == EnvBefore(k)
              a == hist.envs[k]
          IN  \/ a = b
              \/ /\ b.kind # "not unicode"
                 /\ a = EnvStr(b.v \o <<PathListSep>> \o JdkBinPath(hist.paths[k]))

\* the claim for a PATH that std::env::var can read or that is not set
C17_ReadablePath == hist.env0.kind # "not unicode" => C17_AppendOnly

\* two calls with different install paths, each appended to the PATH
C17_TwoAppends ==
    /\ calls = 2
    /\ hist.paths[1] # hist.paths[2]
    /\ hist.env0 = EnvStr(OtherEntry)
    /\ env = EnvStr(OtherEntry \o <<PathListSep>> \o JdkBinPath(hist.paths[1])
                               \o <<PathListSep>> \o JdkBinPath(hist.paths[2]))

====
